---- MODULE Spec2Model ----
(***************************************************************************)
(* Model of the scan orchestrator of 2D-PMT-scan (src/src/scan_manager.py) *)
(* together with the parts of the Motor Controller, the Device and the     *)
(* Analyser it drives.  One run of Scan_Manager.run is one behaviour.      *)
(*                                                                         *)
(* The event loop is single threaded: an action is one synchronous segment *)
(* of a coroutine (from one suspension to the next), or the completion of  *)
(* a hardware operation that is in flight.                                 *)
(***************************************************************************)
EXTENDS Integers, Sequences, FiniteSets, TLC

\* ---------------------------------------------------------------- bounds
MaxQueue == 6      \* longest validated queue handed to the orchestrator
MaxReadouts == 2   \* largest readouts_per_position
MaxPeriod == 1     \* largest reference_period
MaxRadius == 3     \* largest cfg.r_max
MaxStep == 2       \* largest cfg.r_step
MaxLimit == 3      \* widest motor limits
MaxGridCalls == 4  \* operations on the Grid objects in one behaviour
MaxBlocks == 3     \* distinct data blocks handed to an Analyser
MaxAnaCalls == 4   \* operations on one Analyser object in one behaviour
MaxMotorCalls == 3 \* validations, calibrations and moves in one behaviour

\* ---------------------------------------------------------------- state
VARIABLES
  pc,                          \* position of the coroutine Scan_Manager.run
  ret,                         \* caller of move_to_next_grid_position
  refCtx,                      \* caller of measure_reference_device
  depth,                       \* nested move_to_next_grid_position frames
  valid_grid_positions,        \* self.grid.valid_grid_positions
  queue_is_ndarray,            \* the queue is the ndarray of validate_grid
  rejected,                    \* coordinates check_position refuses
  refTargetOK,                 \* check_position(reference target)
  readouts_per_position,
  reference_period,
  counts_since_last_reference,
  jobIdx,                      \* index of the job of read_and_analyse
  jobActive,                   \* inside gather(job(), process_next())
  jobDone,                     \* job() of the current gather has returned
  drainDone,                   \* process_next() of the current gather ran
  data_to_analyse,             \* the Analyser's pending blocks
  run_timestamps,
  awaiting,                    \* operations the orchestrator is joined on
  orphans,                     \* operations in flight nobody waits for
  raised,                      \* a task of the current gather/await raised
  deviceMode,                  \* last configuration requested of the Device
  stageAt,                     \* where the last finished stage move went
  last_set_coordinates,        \* MotorsControl.last_set_coordinates
  logOpen,                     \* the "with open(log_file)" block is active
  line,                        \* what was written since the file was opened
  logLines,                    \* lines of positions_and_timestamps.txt
  \* history of the run
  initQueue, popped, moved, measured, processed,
  nReads, nDrains, totalReads, readAt,
  drainLog,                    \* the process_next calls of the position
  refs, refsDone, refFailed, refEntry, advEntry, advMoves,
  refReads,                    \* device.read_reference calls made
  crashCause,
  \* the Grid the caller builds and the one Scan_Manager.__init__ keeps
  r_max, r_step,               \* cfg.r_max, cfg.r_step
  motor_limits,                \* the calibration check_position works with
  grids,                       \* the Grid objects, by identity
  sm_grid,                     \* the object self.grid of a Scan_Manager
  sm_counts,                   \* its counts_since_last_reference
  gridOp,                      \* the last operation on a Grid, its outcome
  gridCalls,                   \* operations made so far, by name
  firstGrid,                   \* grid_positions after the first make_grid
  \* an Analyser object on its own (data_analysis.py)
  analyser,                    \* its class, pending blocks, counter, output
  anaOp,                       \* the last operation on it, its outcome
  anaCalls,                    \* operations made so far, by name
  \* a Motor Controller and the Grid validated against it
  mc_cal,                      \* the calibration the Motor Controller holds
  mc_grid,                     \* the Grid object
  mc_validated_with,           \* the calibration of the last validate_grid
  mc_op,                       \* the last operation, its outcome
  mc_calls                     \* operations made so far

gridVars == <<r_max, r_step, motor_limits, grids, sm_grid, sm_counts, gridOp,
              gridCalls, firstGrid>>
unitVars == <<analyser, anaOp, anaCalls>>
motVars  == <<mc_cal, mc_grid, mc_validated_with, mc_op, mc_calls>>
cfgVars  == <<queue_is_ndarray, rejected, refTargetOK, readouts_per_position,
              reference_period, initQueue, gridVars, unitVars, motVars>>
ctlVars  == <<pc, ret, refCtx, depth>>
jobVars  == <<jobIdx, jobActive, jobDone, drainDone>>
anaVars  == <<data_to_analyse, processed, nDrains, drainLog>>
readVars == <<run_timestamps, nReads, totalReads, readAt>>
hwVars   == <<awaiting, orphans, raised, deviceMode, stageAt>>
logVars  == <<logOpen, line, logLines, measured>>
advVars  == <<valid_grid_positions, popped, moved, last_set_coordinates,
              advEntry, advMoves>>
refVars  == <<refs, refsDone, refFailed, refEntry, refReads>>

vars == <<cfgVars, ctlVars, jobVars, anaVars, readVars, hwVars, logVars,
          advVars, refVars, counts_since_last_reference, crashCause>>

\* ---------------------------------------------------------------- helpers
Ops == {"move_ref", "cfg_secondary", "ref_read", "cfg_primary",
        "move_scan", "read"}

Iota(n) == [i \in 1..n |-> i]

\* MotorsControl._make_absolute_position: the absolute position of grid
\* coordinate c, a list of three components
AbsPos(c) == <<c, c, c>>

\* MotorsControl.get_current_position
RealPosition == <<1, 1, 1>>

check_position_AllowAll(c) == TRUE

\* MotorsControl.check_position on the absolute position of coordinate c
check_position(c) == c \notin rejected

\* the pcs at which the coroutine of the current job is suspended or done,
\* so that the event loop can run the process_next() task of the gather
SuspendedPcs == {"job_read", "job_join", "ref_gather1", "ref_read",
                 "ref_gather2", "adv_move"}

\* the reference target, as a value of stageAt
RefTarget == 0

\* ------------------------------------------------- decisions of the code
\* (each preceded by the variant that a slip in that line would give)

ReferenceDue_AtLeast(count, period) == count >= period

\* check_if_reference_and_move:
\* "if self.counts_since_last_reference > self.reference_period"
ReferenceDue(count, period) == count > period

CountAfterReference_AlwaysReset(ctx, count) == 0

\* "self.counts_since_last_reference = 0" follows measure_reference_device
\* in check_if_reference_and_move only; run does not reset the counter after
\* the initial and the final reference measurement
CountAfterReference(ctx, count) == IF ctx = "periodic" THEN 0 ELSE count

JobCount_NoFinalJob(n) == n

\* read_and_analyse: the job list holds readouts_per_position times
\* read_and_append and one check_if_reference_and_move
JobCount(n) == n + 1

RefHandlerCatches_IndexErrorOnly(exc) == exc \in {"IndexError"}

\* measure_reference_device: "except Exception" catches whatever a sub-step
\* raises
RefHandlerCatches(exc) == exc \in {"ValueError", "DeviceError", "MotorError",
                                   "AnalysisError", "IndexError"}

AllReturned_AnyOne(ops) == Cardinality(ops) <= 1

\* "await asyncio.gather(a, b)" and "await device.read_reference()" resume
\* when every operation waited for has returned
AllReturned(ops) == ops = {}

GatherJoined_JobOnly(job, drain) == job

\* read_and_analyse: "await asyncio.gather(job(), process_next())" resumes
\* when both have returned
GatherJoined(job, drain) == job /\ drain

AppendBlock_Dropped(q, block) == q

\* read_and_append: "self.analyser.append_data(block)"
AppendBlock(q, block) == Append(q, block)

CountAfterPosition_ByTwo(count) == count + 2

\* measure_grid_position: "self.counts_since_last_reference += 1"
CountAfterPosition(count) == count + 1

\* positions whose reads were started so far: the recorded ones and the one
\* inside its with block
PositionsStarted == Len(measured) + (IF logOpen THEN 1 ELSE 0)

AfterSetup_NoReference == "advance"

\* run: measure_reference_device() follows pre_run_setup()
AfterSetup == "ref_enter"

AfterLoop_NoReference == "done"

\* run: measure_reference_device() follows the while loop
AfterLoop == "ref_enter"

OnRejected_Return == "adv_return"

\* move_to_next_grid_position: a refused move is followed by a nested call
\* of move_to_next_grid_position
OnRejected == "advance"

\* ------------------------------------------------------------ grids.py
\* ceil(a / b) for b # 0
CeilDiv(a, b) == IF b > 0 THEN -((-a) \div b) ELSE -(a \div (-b))

\* np.arange(0, stop, step): 0, step, 2*step, ... as long as it lies before
\* stop; a zero step raises
Arange(stop, step) ==
  LET n == CeilDiv(stop, step) IN
  [i \in 1..(IF n > 0 THEN n ELSE 0) |-> (i - 1) * step]

Negate(s) == [i \in 1..Len(s) |-> 0 - s[i]]

RECURSIVE SortSet(_)
SortSet(S) ==
  IF S = {} THEN <<>>
  ELSE LET m == CHOOSE x \in S : \A y \in S : x <= y
       IN  <<m>> \o SortSet(S \ {m})

np_unique_AsIs(s) == s

\* np.unique: the sorted distinct values
np_unique(s) == SortSet({s[i] : i \in 1..Len(s)})

dummy_square_grid_Exclusive(maxR, step) ==
  LET xy == Arange(maxR, step) IN np_unique(Negate(xy) \o xy)

\* Circular_Constant_Density._dummy_square_grid
dummy_square_grid(maxR, step) ==
  LET xy == Arange(maxR + step, step) IN np_unique(Negate(xy) \o xy)

\* cart2pol and "r <= self.max_R": sqrt(x^2 + y^2) <= maxR, on integers
InDisk(p, maxR) == maxR >= 0 /\ p[1] * p[1] + p[2] * p[2] <= maxR * maxR

\* "for x in xy_sq: for y in xy_sq": the pairs in the order of the loops
LoopPairs(xy) ==
  [k \in 1..(Len(xy) * Len(xy)) |->
     <<xy[((k - 1) \div Len(xy)) + 1], xy[((k - 1) % Len(xy)) + 1]>>]

RECURSIVE AppendInDisk(_, _, _)
AppendInDisk(acc, pairs, maxR) ==
  IF pairs = <<>> THEN acc
  ELSE AppendInDisk(IF InDisk(Head(pairs), maxR)
                    THEN Append(acc, Head(pairs)) ELSE acc,
                    Tail(pairs), maxR)

GridStart_KeepOld(old) == old

\* make_grid: "self.grid_positions = []"
GridStart(old) == <<>>

\* an object of class Circular_Constant_Density before make_grid
NewGrid == [made |-> FALSE, xy_sq |-> <<>>, grid_positions |-> <<>>,
            validated |-> FALSE, valid_mask |-> <<>>,
            valid_grid_positions |-> <<>>]

\* PMT_centre of the calibrations, and the slopes of their curvature mapping
Centres == {<<0, 0, 0>>, <<0, 1, -1>>}

Scales == {0, 1}

\* Circular_Constant_Density.make_grid on object g
make_grid(g, maxR, step) ==
  LET xy == dummy_square_grid(maxR, step) IN
  [g EXCEPT !.made = TRUE,
            !.xy_sq = xy,
            !.grid_positions =
                AppendInDisk(GridStart(g.grid_positions), LoopPairs(xy), maxR)]

\* ------------------------------------------------ motor_grid_control.py
\* A calibration of the Motor Controller is the limits of the motors (lo,
\* hi), PMT_centre (centre) and the curvature mapping, here f(r) = scale * r;
\* scale = 1 is the "lambda x: x" used when the mapping file does not load.
\* A length c + sqrt(n) is kept exact as the pair <<c, n>>.

\* cart2pol(x, y): rho, kept as rho^2, and the direction phi of (x, y)
cart2pol(p) == [rho2 |-> p[1] * p[1] + p[2] * p[2], dir |-> p]

\* pol2cart(rho, phi): x = rho cos(phi), y = rho sin(phi), returned as (y, x)
pol2cart(pol) == <<pol.dir[2], pol.dir[1]>>

\* self.f_distance_correction(r), as the square of its value
f_distance_correction(cal, rho2) == cal.scale * cal.scale * rho2

make_absolute_position_Unswapped(p, cal) ==
  LET pol == cart2pol(p) IN
  <<<<cal.centre[1], f_distance_correction(cal, pol.rho2)>>,
    cal.centre[2] + p[1], cal.centre[3] + p[2]>>

\* MotorsControl._make_absolute_position:
\* PMT_centre + np.append(f_distance_correction(r), pol2cart(r, phi))
make_absolute_position(p, cal) ==
  LET pol == cart2pol(p)
      yx == pol2cart(pol)
  IN  <<<<cal.centre[1], f_distance_correction(cal, pol.rho2)>>,
        cal.centre[2] + yx[1], cal.centre[3] + yx[2]>>

\* mot.check_position_in_mm_allowed(position): one answer per axis, an axis
\* value being allowed inside the limits of the motors
check_position_in_mm_allowed(a, cal) ==
  LET lo == cal.lo - a[1][1]
      hi == cal.hi - a[1][1]
  IN  << /\ (lo <= 0 \/ a[1][2] >= lo * lo)
         /\ (hi >= 0 /\ a[1][2] <= hi * hi),
         cal.lo <= a[2] /\ a[2] <= cal.hi,
         cal.lo <= a[3] /\ a[3] <= cal.hi >>

\* MotorsControl.check_position(position), position an absolute one:
\* all(self.mot.check_position_in_mm_allowed(position))
check_position_abs(a, cal) ==
  \A i \in 1..3 : check_position_in_mm_allowed(a, cal)[i]

\* MotorsControl.dummy_check_PMT_curvature(x, y): the absolute position,
\* computed in the method itself, and check_position of it
dummy_check_PMT_curvature(p, limits) ==
  LET pol == cart2pol(p)
      yx == pol2cart(pol)
      abs_pos_cart == <<<<limits.centre[1],
                          f_distance_correction(limits, pol.rho2)>>,
                        limits.centre[2] + yx[1], limits.centre[3] + yx[2]>>
  IN  check_position_abs(abs_pos_cart, limits)

\* MotorsControl.check_PMT_curvature_and_move(x, y): whether the move is
\* made (True) or the position skipped (False)
check_PMT_curvature_and_move(p, cal) ==
  check_position_abs(make_absolute_position(p, cal), cal)

ValidMask_Negated(positions, limits) ==
  [i \in 1..Len(positions) |-> ~dummy_check_PMT_curvature(positions[i], limits)]

\* validate_grid, the loop: one entry of valid_mask per grid position
ValidMask(positions, limits) ==
  [i \in 1..Len(positions) |-> dummy_check_PMT_curvature(positions[i], limits)]

\* np.array(positions)[mask]: the rows whose mask entry is True, in order
RECURSIVE MaskSelect(_, _)
MaskSelect(positions, mask) ==
  IF positions = <<>> THEN <<>>
  ELSE (IF Head(mask) THEN <<Head(positions)>> ELSE <<>>)
       \o MaskSelect(Tail(positions), Tail(mask))

PositionsAfterValidate_Filtered(g, mask) == MaskSelect(g.grid_positions, mask)

\* validate_grid reads self.grid_positions and never assigns it
PositionsAfterValidate(g, mask) == g.grid_positions

\* Grid.validate_grid on object g
validate_grid(g, limits) ==
  LET mask == ValidMask(g.grid_positions, limits) IN
  [g EXCEPT !.validated = TRUE,
            !.valid_mask = mask,
            !.valid_grid_positions = MaskSelect(g.grid_positions, mask),
            !.grid_positions = PositionsAfterValidate(g, mask)]

NoCalls == [make_grid |-> 0, validate_grid |-> 0, init |-> 0, pop |-> 0]

TotalCalls == gridCalls.make_grid + gridCalls.validate_grid + gridCalls.init
              + gridCalls.pop

\* the calibrations of the motors
Limits == [lo : (0 - MaxLimit)..1, hi : 0..MaxLimit,
           centre : {<<0, 0, 0>>}, scale : {0}]

\* every calibration: the limits, PMT_centre and the curvature mapping
Calibrations == [lo : (0 - MaxLimit)..1, hi : 0..MaxLimit,
                 centre : Centres, scale : Scales]

GridHeld_Alias == "caller"

\* Scan_Manager.__init__: self.grid = deepcopy(grid) is an object of its own
GridHeld == "copy"

\* ------------------------------------------------------ data_analysis.py
\* PulseModeAnalysis.__init__ / CurrentModeAnalysis.__init__: no pending
\* block (data_to_analyse, data_to_write), current_position_index = 0
NewAnalyser(mode) ==
  [mode |-> mode, queue |-> <<>>, index |-> 0, written |-> <<>>]

append_data_Front(a, block) == [a EXCEPT !.queue = <<block>> \o @]

\* append_data: "self.data_to_analyse.append(data)" and
\* "self.data_to_write.append(data)"
append_data(a, block) == [a EXCEPT !.queue = Append(@, block)]

pop0_Last(q) == [item |-> q[Len(q)], rest |-> SubSeq(q, 1, Len(q) - 1)]

\* "pop(0)" of a non-empty list
pop0(q) == [item |-> Head(q), rest |-> Tail(q)]

\* process_next with a pending block; out is what processing it does:
\* "ok", or an IndexError raised inside process_data / write_data, which the
\* "except IndexError" meant for the empty list catches as well, or another
\* exception, which leaves process_next. Only the pulse-mode class counts
\* (current_position_index)
ProcessPending(a, out) ==
  LET p == pop0(a.queue) IN
  [a EXCEPT !.queue = p.rest,
            !.written = IF out = "ok" THEN Append(@, p.item) ELSE @,
            !.index = IF out = "ok" /\ a.mode = "pulse" THEN @ + 1 ELSE @]

\* process_next: pop(0) of an empty list raises IndexError, which is caught
process_next(a, out) == IF a.queue = <<>> THEN a ELSE ProcessPending(a, out)

NoAnaCalls == [append_data |-> 0, process_next |-> 0]

\* no Analyser is exercised on its own
AnaIdle ==
  /\ analyser = NewAnalyser("pulse")
  /\ anaOp = [op |-> "none", raised |-> FALSE, out |-> "ok", block |-> 0]
  /\ anaCalls = NoAnaCalls

\* no Motor Controller is exercised on its own
MotIdle ==
  /\ mc_cal = [lo |-> 0 - MaxLimit, hi |-> MaxLimit,
               centre |-> <<0, 0, 0>>, scale |-> 0]
  /\ mc_grid = NewGrid
  /\ mc_validated_with = mc_cal
  /\ mc_op = [op |-> "none", raised |-> FALSE, coord |-> <<0, 0>>,
              accepted |-> FALSE]
  /\ mc_calls = 0

\* ---------------------------------------------------------------- Init
\* no Grid operation is under way: the Grid was built and handed over
GridIdle ==
  /\ r_max = 1 /\ r_step = 1
  /\ motor_limits = [lo |-> 0 - MaxLimit, hi |-> MaxLimit,
                     centre |-> <<0, 0, 0>>, scale |-> 0]
  /\ grids = [caller |-> NewGrid, copy |-> NewGrid]
  /\ sm_grid = "none" /\ sm_counts = 0
  /\ gridOp = [op |-> "none", raised |-> FALSE]
  /\ gridCalls = NoCalls
  /\ firstGrid = <<>>

\* the Scan_Manager and its collaborators right after construction
OrchFresh ==
  /\ pc = "start" /\ ret = "none" /\ refCtx = "none" /\ depth = 0
  /\ counts_since_last_reference = 0
  /\ jobIdx = 0 /\ jobActive = FALSE /\ jobDone = FALSE /\ drainDone = FALSE
  /\ data_to_analyse = <<>> /\ processed = <<>> /\ nDrains = 0
  /\ drainLog = <<>>
  /\ run_timestamps = <<>> /\ nReads = 0 /\ totalReads = 0 /\ readAt = <<>>
  /\ awaiting = {} /\ orphans = {} /\ raised = "none"
  /\ deviceMode = "primary" /\ stageAt = -1
  /\ last_set_coordinates = <<-1, -1>>
  /\ logOpen = FALSE /\ line = <<>> /\ logLines = <<>> /\ measured = <<>>
  /\ popped = <<>> /\ moved = <<>> /\ advEntry = <<>> /\ advMoves = 0
  /\ refs = [initial |-> 0, periodic |-> 0, final |-> 0]
  /\ refsDone = [initial |-> 0, periodic |-> 0, final |-> 0]
  /\ refFailed = FALSE
  /\ refEntry = [queue |-> <<>>, count |-> 0, started |-> 0, since |-> 0,
                  reads |-> 0]
  /\ refReads = 0
  /\ crashCause = "none"

Init ==
  /\ GridIdle
  /\ AnaIdle
  /\ MotIdle
  /\ OrchFresh
  /\ \E n \in 0..MaxQueue :
        /\ valid_grid_positions = Iota(n)
        /\ initQueue = Iota(n)
        /\ rejected \in SUBSET (1..n)
  /\ queue_is_ndarray \in BOOLEAN
  /\ refTargetOK \in BOOLEAN
  /\ readouts_per_position \in 0..MaxReadouts
  /\ reference_period \in 0..MaxPeriod

with_exit_Leak(open) == open

\* leaving "with open(self.log_file, "a") as f", normally or by an exception:
\* the file is flushed and closed
with_exit(open) == FALSE

FreshTimestamps_Keep(old) == old

\* read_and_analyse: "self.run_timestamps = []"
FreshTimestamps(old) == <<>>

\* an exception leaves Scan_Manager.run: the with block closes the log file,
\* run_until_complete raises and the loop is closed
Crash(cause) ==
  /\ pc' = "crashed"
  /\ crashCause' = cause
  /\ logOpen' = with_exit(logOpen)
  /\ awaiting' = {} /\ orphans' = {} /\ raised' = "none"
  /\ UNCHANGED <<deviceMode, stageAt>>

\* entry of move_to_next_grid_position from caller r
CallAdvance(r) ==
  /\ pc' = "advance" /\ ret' = r /\ depth' = 0
  /\ advEntry' = valid_grid_positions /\ advMoves' = 0

\* ---------------------------------------------------------------- run
\* pre_run_setup: a pulse-mode analyser reads one block for the time axis
Setup ==
  /\ pc = "start"
  /\ \E pulse \in BOOLEAN, ok \in BOOLEAN :
       IF pulse /\ ~ok
       THEN /\ Crash("setup_read")
            /\ UNCHANGED <<ret, refCtx, depth>>
       ELSE /\ pc' = AfterSetup
            /\ refCtx' = "initial"
            /\ UNCHANGED <<ret, depth, hwVars, logOpen, crashCause>>
  /\ UNCHANGED <<cfgVars, jobVars, anaVars, readVars, line, logLines,
                 measured, advVars, refVars, counts_since_last_reference>>

\* -------------------------------------------- measure_reference_device
\* the exception a failing operation raises
ExcOf(op) == IF op = "move_ref" THEN "MotorError" ELSE "DeviceError"

\* entry: gather(move_to_reference(), configure_for_secondary()). Both tasks
\* run their first segment: move_to_second_PMT / move_to_diode raises
\* ValueError when the target is out of the motor limits, else starts the move
RefEnter ==
  /\ pc = "ref_enter"
  /\ refs' = [refs EXCEPT ![refCtx] = @ + 1]
  /\ refEntry' = [queue |-> valid_grid_positions,
                  count |-> counts_since_last_reference,
                  started |-> PositionsStarted,
                  since |-> PositionsStarted - refEntry.started,
                  reads |-> refReads]
  /\ refFailed' = FALSE
  /\ awaiting' = {"cfg_secondary"} \cup
                 (IF refTargetOK THEN {"move_ref"} ELSE {})
  /\ raised' = IF refTargetOK THEN "none" ELSE "ValueError"
  /\ deviceMode' = "secondary"
  /\ pc' = "ref_gather1"
  /\ UNCHANGED <<cfgVars, ret, refCtx, depth, jobVars, anaVars, readVars,
                 orphans, stageAt, logVars, advVars, refsDone, refReads,
                 counts_since_last_reference, crashCause>>

\* an operation the reference measurement waits for completes or raises
RefOpDone(op) ==
  /\ pc \in {"ref_gather1", "ref_read", "ref_gather2"}
  /\ op \in awaiting
  /\ awaiting' = awaiting \ {op}
  /\ \E ok \in BOOLEAN :
       /\ raised' = IF ok \/ raised # "none" THEN raised ELSE ExcOf(op)
       /\ stageAt' = IF ok /\ op = "move_ref" THEN RefTarget ELSE stageAt
  /\ UNCHANGED <<cfgVars, ctlVars, jobVars, anaVars, readVars, orphans,
                 deviceMode, logVars, advVars, refVars,
                 counts_since_last_reference, crashCause>>

\* both tasks of the first gather returned: device.read_reference()
RefJoin1 ==
  /\ pc = "ref_gather1" /\ AllReturned(awaiting) /\ raised = "none"
  /\ awaiting' = {"ref_read"}
  /\ refReads' = refReads + 1
  /\ pc' = "ref_read"
  /\ UNCHANGED <<cfgVars, ret, refCtx, depth, jobVars, anaVars, readVars,
                 orphans, raised, deviceMode, stageAt, logVars, advVars,
                 refs, refsDone, refFailed, refEntry,
                 counts_since_last_reference, crashCause>>

\* the reference read returned: gather(analyse_reference(),
\* configure_for_primary()); analyse_reference has no suspension point
RefReadJoin ==
  /\ pc = "ref_read" /\ AllReturned(awaiting) /\ raised = "none"
  /\ \E analysed \in BOOLEAN :
       raised' = IF analysed THEN "none" ELSE "AnalysisError"
  /\ awaiting' = {"cfg_primary"}
  /\ deviceMode' = "primary"
  /\ pc' = "ref_gather2"
  /\ UNCHANGED <<cfgVars, ret, refCtx, depth, jobVars, anaVars, readVars,
                 orphans, stageAt, logVars, advVars, refVars,
                 counts_since_last_reference, crashCause>>

\* both tasks of the second gather returned: the routine returns
RefJoin2 ==
  /\ pc = "ref_gather2" /\ AllReturned(awaiting) /\ raised = "none"
  /\ pc' = "ref_return"
  /\ UNCHANGED <<cfgVars, ret, refCtx, depth, jobVars, anaVars, readVars,
                 hwVars, logVars, advVars, refVars,
                 counts_since_last_reference, crashCause>>

\* a sub-step raised: gather does not cancel the other task, which stays in
\* flight; the except clause logs the error and the routine returns
RefCatch ==
  /\ pc \in {"ref_gather1", "ref_read", "ref_gather2"}
  /\ raised # "none"
  /\ refFailed' = TRUE
  /\ IF RefHandlerCatches(raised)
     THEN /\ pc' = "ref_return"
          /\ orphans' = orphans \cup awaiting
          /\ awaiting' = {}
          /\ raised' = "none"
          /\ UNCHANGED <<deviceMode, stageAt, logOpen, crashCause>>
     ELSE Crash("reference")
  /\ UNCHANGED <<cfgVars, ret, refCtx, depth, jobVars, anaVars, readVars,
                 line, logLines, measured, advVars, refs, refsDone, refEntry,
                 refReads,
                 counts_since_last_reference>>

\* the caller continues after measure_reference_device
RefReturn ==
  /\ pc = "ref_return"
  /\ refsDone' = [refsDone EXCEPT ![refCtx] = @ + 1]
  /\ counts_since_last_reference' =
        CountAfterReference(refCtx, counts_since_last_reference)
  /\ CASE refCtx = "initial" -> CallAdvance("first")
       [] refCtx = "periodic" -> CallAdvance("job")
       [] OTHER ->
            /\ pc' = "done"
            /\ UNCHANGED <<ret, depth, advEntry, advMoves>>
  /\ UNCHANGED <<cfgVars, refCtx, jobVars, anaVars, readVars, hwVars,
                 logVars, valid_grid_positions, popped, moved,
                 last_set_coordinates, refs, refFailed, refEntry, refReads,
                 crashCause>>

\* an operation nobody waits for completes (its result is dropped)
OrphanDone(op) ==
  /\ pc \notin {"done", "crashed"}
  /\ op \in orphans
  /\ orphans' = orphans \ {op}
  /\ \E ok \in BOOLEAN :
       stageAt' = IF ok /\ op = "move_ref" THEN RefTarget ELSE stageAt
  /\ UNCHANGED <<cfgVars, ctlVars, jobVars, anaVars, readVars, awaiting,
                 raised, deviceMode, logVars, advVars, refVars,
                 counts_since_last_reference, crashCause>>

\* ------------------------------------------ move_to_next_grid_position
\* one frame: pop(0), then check_PMT_curvature_and_move up to its await.
\* An ndarray has no pop (AttributeError, not caught by "except IndexError");
\* pop(0) of an empty list raises IndexError, which the frame catches
AdvancePop ==
  /\ pc = "advance"
  /\ IF queue_is_ndarray
     THEN /\ Crash("AttributeError")
          /\ UNCHANGED <<ret, refCtx, depth, advVars>>
     ELSE IF valid_grid_positions = <<>>
     THEN /\ pc' = "adv_return"
          /\ UNCHANGED <<ret, refCtx, depth, advVars, hwVars, logOpen,
                         crashCause>>
     ELSE LET c == Head(valid_grid_positions) IN
          /\ valid_grid_positions' = Tail(valid_grid_positions)
          /\ popped' = Append(popped, c)
          /\ IF check_position(c)
             THEN /\ last_set_coordinates' = AbsPos(c)
                  /\ moved' = Append(moved, c)
                  /\ advMoves' = advMoves + 1
                  /\ awaiting' = {"move_scan"}
                  /\ pc' = "adv_move"
                  /\ UNCHANGED depth
             ELSE /\ depth' = depth + 1
                  /\ pc' = OnRejected
                  /\ UNCHANGED <<last_set_coordinates, moved, advMoves,
                                 awaiting>>
          /\ UNCHANGED <<ret, refCtx, advEntry, orphans, raised, deviceMode,
                         stageAt, logOpen, crashCause>>
  /\ UNCHANGED <<cfgVars, jobVars, anaVars, readVars, line, logLines,
                 measured, refVars, counts_since_last_reference>>

\* mot.move_to_absolute_position_in_mm returns or raises
MoveDone ==
  /\ pc = "adv_move" /\ "move_scan" \in awaiting
  /\ \E ok \in BOOLEAN :
       IF ok
       THEN /\ pc' = "adv_return"
            /\ awaiting' = {}
            /\ stageAt' = Head(last_set_coordinates)
            /\ UNCHANGED <<orphans, raised, deviceMode, logOpen, crashCause>>
       ELSE Crash("move")
  /\ UNCHANGED <<cfgVars, ret, refCtx, depth, jobVars, anaVars, readVars,
                 line, logLines, measured, advVars, refVars,
                 counts_since_last_reference>>

\* every frame of move_to_next_grid_position returns
AdvReturn ==
  /\ pc = "adv_return"
  /\ depth' = 0
  /\ IF ret = "job"
     THEN /\ jobDone' = TRUE
          /\ pc' = "job_join"
     ELSE /\ pc' = "loop_test"
          /\ UNCHANGED jobDone
  /\ UNCHANGED <<cfgVars, ret, refCtx, jobIdx, jobActive, drainDone, anaVars,
                 readVars, hwVars, logVars, advVars, refVars,
                 counts_since_last_reference, crashCause>>

\* ------------------------------------------------ run: the while loop
\* "while len(valid_grid_positions) > 0": measure_grid_position opens the log
\* file and log_position_info writes last_set_coordinates extended IN PLACE by
\* the real position; read_and_analyse then builds its job list.
\* After the loop: the final reference measurement
LoopTest ==
  /\ pc = "loop_test"
  /\ IF Len(valid_grid_positions) > 0
     THEN /\ logOpen' = TRUE
          /\ last_set_coordinates' = last_set_coordinates \o RealPosition
          /\ line' = last_set_coordinates \o RealPosition
          /\ run_timestamps' = FreshTimestamps(run_timestamps)
          /\ readAt' = <<>>
          /\ nReads' = 0 /\ nDrains' = 0
          /\ jobIdx' = 0
          /\ pc' = IF JobCount(readouts_per_position) > 0
                   THEN "job_start" ELSE "pos_finish"
          /\ UNCHANGED refCtx
     ELSE /\ pc' = AfterLoop
          /\ refCtx' = "final"
          /\ UNCHANGED <<logOpen, last_set_coordinates, line, run_timestamps,
                         readAt, nReads, nDrains, jobIdx>>
  /\ UNCHANGED <<cfgVars, ret, depth, jobActive, jobDone, drainDone,
                 data_to_analyse, processed, drainLog, totalReads, hwVars,
                 logLines,
                 measured, valid_grid_positions, popped, moved, advEntry,
                 advMoves, refVars, counts_since_last_reference, crashCause>>

\* ---------------------------------------------------- read_and_analyse
\* "await asyncio.gather(job(), self.analyser.process_next())": the task of
\* job() runs first, up to its first suspension
JobStart ==
  /\ pc = "job_start"
  /\ jobActive' = TRUE /\ jobDone' = FALSE /\ drainDone' = FALSE
  /\ IF jobIdx < readouts_per_position
     THEN \* read_and_append: await self.device.read()
          /\ awaiting' = {"read"}
          /\ pc' = "job_read"
          /\ UNCHANGED <<ret, refCtx, depth, advEntry, advMoves>>
     ELSE IF ReferenceDue(counts_since_last_reference, reference_period)
     THEN \* check_if_reference_and_move: measure_reference_device()
          /\ pc' = "ref_enter"
          /\ refCtx' = "periodic"
          /\ UNCHANGED <<ret, depth, advEntry, advMoves, awaiting>>
     ELSE \* check_if_reference_and_move: move_to_next_grid_position()
          /\ CallAdvance("job")
          /\ UNCHANGED <<refCtx, awaiting>>
  /\ UNCHANGED <<cfgVars, jobIdx, anaVars, readVars, orphans, raised,
                 deviceMode, stageAt, logVars, valid_grid_positions, popped,
                 moved, last_set_coordinates, refVars,
                 counts_since_last_reference, crashCause>>

\* device.read() returns a block and its timestamp, or raises
ReadDone ==
  /\ pc = "job_read" /\ "read" \in awaiting
  /\ \E ok \in BOOLEAN :
       IF ok
       THEN /\ totalReads' = totalReads + 1
            /\ nReads' = nReads + 1
            /\ run_timestamps' = Append(run_timestamps, totalReads + 1)
            /\ readAt' = Append(readAt, stageAt)
            /\ data_to_analyse' = AppendBlock(data_to_analyse, totalReads + 1)
            /\ jobDone' = TRUE
            /\ awaiting' = {}
            /\ pc' = "job_join"
            /\ UNCHANGED <<orphans, raised, deviceMode, stageAt, logOpen,
                           crashCause>>
       ELSE /\ Crash("read")
            /\ UNCHANGED <<totalReads, nReads, run_timestamps, readAt,
                           data_to_analyse, jobDone>>
  /\ UNCHANGED <<cfgVars, ret, refCtx, depth, jobIdx, jobActive, drainDone,
                 processed, nDrains, drainLog, line, logLines, measured,
                 advVars,
                 refVars, counts_since_last_reference>>

\* analyser.process_next(): pop(0) of the pending blocks and process it;
\* IndexError of an empty list is caught (nothing to analyse)
Drain ==
  /\ jobActive /\ ~drainDone
  /\ pc \in SuspendedPcs
  /\ drainDone' = TRUE
  /\ nDrains' = nDrains + 1
  /\ drainLog' = Append(drainLog,
                        [job |-> jobIdx,
                         got |-> IF data_to_analyse # <<>>
                                 THEN Head(data_to_analyse) ELSE 0,
                         early |-> "read" \in awaiting])
  /\ IF data_to_analyse # <<>>
     THEN /\ data_to_analyse' = Tail(data_to_analyse)
          /\ processed' = Append(processed, Head(data_to_analyse))
     ELSE UNCHANGED <<data_to_analyse, processed>>
  /\ UNCHANGED <<cfgVars, ctlVars, jobIdx, jobActive, jobDone, readVars,
                 hwVars, logVars, advVars, refVars,
                 counts_since_last_reference, crashCause>>

\* both tasks of the gather returned: the next job, or the end of the list
JobJoin ==
  /\ pc = "job_join" /\ GatherJoined(jobDone, drainDone)
  /\ jobActive' = FALSE
  /\ IF jobIdx + 1 < JobCount(readouts_per_position)
     THEN /\ jobIdx' = jobIdx + 1
          /\ pc' = "job_start"
     ELSE /\ pc' = "pos_finish"
          /\ UNCHANGED jobIdx
  /\ UNCHANGED <<cfgVars, ret, refCtx, depth, jobDone, drainDone, anaVars,
                 readVars, hwVars, logVars, advVars, refVars,
                 counts_since_last_reference, crashCause>>

\* measure_grid_position after read_and_analyse: count the position, write
\* the timestamps and the newline, close the file; then run calls
\* move_to_next_grid_position again
FinishPosition ==
  /\ pc = "pos_finish"
  /\ counts_since_last_reference' =
        CountAfterPosition(counts_since_last_reference)
  /\ drainLog' = <<>>
  /\ logLines' = Append(logLines, line \o run_timestamps)
  /\ line' = <<>>
  /\ logOpen' = with_exit(logOpen)
  /\ measured' = Append(measured, [coord |-> Head(line), reads |-> nReads,
                                   at |-> readAt])
  /\ CallAdvance("loop")
  /\ UNCHANGED <<cfgVars, refCtx, jobVars, data_to_analyse, processed,
                 nDrains, readVars, hwVars, valid_grid_positions, popped,
                 moved, last_set_coordinates, refVars, crashCause>>

Next ==
  \/ Setup
  \/ RefEnter
  \/ \E op \in Ops : RefOpDone(op)
  \/ RefJoin1
  \/ RefReadJoin
  \/ RefJoin2
  \/ RefCatch
  \/ RefReturn
  \/ \E op \in Ops : OrphanDone(op)
  \/ AdvancePop
  \/ MoveDone
  \/ AdvReturn
  \/ LoopTest
  \/ JobStart
  \/ ReadDone
  \/ Drain
  \/ JobJoin
  \/ FinishPosition

Spec == Init /\ [][Next]_vars

\* ------------------------------------------------ the operator interrupts
\* run_scan: KeyboardInterrupt leaves run_until_complete; "tasks.cancel()"
\* only requests the cancellation and "loop.close()" follows at once, so a
\* coroutine suspended in an await is never resumed and keeps what it holds.
\* An interrupt that arrives while the code of run() itself executes is
\* raised there and unwinds its with block
Interrupt ==
  /\ pc \notin {"done", "crashed", "interrupted"}
  /\ pc' = "interrupted"
  /\ crashCause' = IF pc \in SuspendedPcs THEN crashCause
                   ELSE "KeyboardInterrupt"
  /\ logOpen' = IF pc \in SuspendedPcs THEN logOpen ELSE with_exit(logOpen)
  /\ UNCHANGED <<cfgVars, ret, refCtx, depth, jobVars, anaVars, readVars,
                 hwVars, line, logLines, measured, advVars, refVars,
                 counts_since_last_reference>>

NextInterrupt ==
  \/ Next
  \/ Interrupt

SpecInterrupt == Init /\ [][NextInterrupt]_vars

\* ------------------------------------------------- building the Grid
orchVars == <<queue_is_ndarray, rejected, refTargetOK, readouts_per_position,
              reference_period, initQueue, ctlVars, jobVars, anaVars,
              readVars, hwVars, logVars, advVars, refVars,
              counts_since_last_reference, crashCause>>

\* run_measurement before scan_manager.run(): a configuration and a motor
\* calibration, a Grid not yet made, no Scan_Manager
GridInit ==
  /\ r_max \in (0 - 1)..MaxRadius
  /\ r_step \in (0 - 1)..MaxStep
  /\ motor_limits \in Limits
  /\ grids = [caller |-> NewGrid, copy |-> NewGrid]
  /\ sm_grid = "none" /\ sm_counts = 0
  /\ gridOp = [op |-> "none", raised |-> FALSE]
  /\ gridCalls = NoCalls
  /\ firstGrid = <<>>
  /\ AnaIdle
  /\ MotIdle
  /\ OrchFresh
  /\ valid_grid_positions = <<>> /\ initQueue = <<>> /\ rejected = {}
  /\ queue_is_ndarray \in BOOLEAN
  /\ refTargetOK = TRUE
  /\ readouts_per_position = 0
  /\ reference_period = 0

GridCall(op, exc) ==
  /\ TotalCalls < MaxGridCalls
  /\ gridCalls' = [gridCalls EXCEPT ![op] = @ + 1]
  /\ gridOp' = [op |-> op, raised |-> exc]

\* grid.make_grid(); np.arange raises on a zero step before anything is
\* assigned
MakeGrid ==
  /\ GridCall("make_grid", r_step = 0)
  /\ IF r_step = 0
       THEN UNCHANGED <<grids, firstGrid>>
       ELSE /\ grids' = [grids EXCEPT
                           !.caller = make_grid(@, r_max, r_step)]
            /\ firstGrid' = IF grids.caller.made THEN firstGrid
                            ELSE grids'.caller.grid_positions
  /\ UNCHANGED <<r_max, r_step, motor_limits, sm_grid, sm_counts, orchVars,
                 unitVars, motVars>>

\* grid.validate_grid(motors); without make_grid there is no grid_positions
\* attribute to read
ValidateGrid ==
  /\ GridCall("validate_grid", ~grids.caller.made)
  /\ grids' = IF grids.caller.made
                THEN [grids EXCEPT !.caller = validate_grid(@, motor_limits)]
                ELSE grids
  /\ UNCHANGED <<r_max, r_step, motor_limits, sm_grid, sm_counts, firstGrid,
                 orchVars, unitVars, motVars>>

\* the motors are calibrated anew: other positions become reachable
Recalibrate ==
  /\ TotalCalls < MaxGridCalls
  /\ \E l \in Limits : l # motor_limits /\ motor_limits' = l
  /\ UNCHANGED <<r_max, r_step, grids, sm_grid, sm_counts, gridOp, gridCalls,
                 firstGrid, orchVars, unitVars, motVars>>

\* ScanManager(grid=grid, ...)
Construct ==
  /\ sm_grid = "none"
  /\ grids.caller.validated
  /\ GridCall("init", FALSE)
  /\ grids' = [grids EXCEPT ![GridHeld] = grids.caller]
  /\ sm_grid' = GridHeld
  /\ sm_counts' = 0
  /\ UNCHANGED <<r_max, r_step, motor_limits, firstGrid, orchVars, unitVars, motVars>>

\* move_to_next_grid_position: self.grid.valid_grid_positions.pop(0); an
\* ndarray has no pop, an empty list raises IndexError
PopQueue ==
  /\ sm_grid # "none"
  /\ GridCall("pop", queue_is_ndarray
                     \/ grids[sm_grid].valid_grid_positions = <<>>)
  /\ grids' = IF queue_is_ndarray \/ grids[sm_grid].valid_grid_positions = <<>>
                THEN grids
                ELSE [grids EXCEPT ![sm_grid].valid_grid_positions = Tail(@)]
  /\ UNCHANGED <<r_max, r_step, motor_limits, sm_grid, sm_counts, firstGrid,
                 orchVars, unitVars, motVars>>

GridNext ==
  \/ MakeGrid
  \/ ValidateGrid
  \/ Recalibrate
  \/ Construct
  \/ PopQueue

GridSpec == GridInit /\ [][GridNext]_vars

\* ================================================================ claims
RefPcs == {"ref_gather1", "ref_read", "ref_gather2"}

\* the run ended without a hardware operation having raised outside a
\* reference measurement
HardwareFault == crashCause \in {"setup_read", "read", "move"}

Accepted(q) == SelectSeq(q, check_position)

\* C1: for a queue of M >= 1 coordinates that are all accepted, a complete
\* run measures every coordinate exactly once, with readouts_per_position
\* reads taken at it, in queue order, and the log gains exactly M lines.
C1_EveryCoordinateMeasuredOnce ==
  (pc = "done" /\ rejected = {} /\ Len(initQueue) >= 1) =>
     /\ Len(logLines) = Len(initQueue)
     /\ Len(measured) = Len(initQueue)
     /\ \A i \in 1..Len(measured) :
          /\ measured[i].coord = initQueue[i]
          /\ measured[i].reads = readouts_per_position

\* C2: when the measurement phase of a position (read_and_analyse) has
\* finished, it has issued exactly readouts_per_position Device reads and
\* exactly readouts_per_position + 1 process_next calls; no phase ever
\* issues more.
C2_ReadsAndDrainsPerPosition ==
  /\ nReads <= readouts_per_position
  /\ nDrains <= readouts_per_position + 1
  /\ pc = "pos_finish" =>
       /\ nReads = readouts_per_position
       /\ nDrains = readouts_per_position + 1
  /\ \A i \in 1..Len(measured) : measured[i].reads = readouts_per_position

C2_Witness ==
  pc = "pos_finish" /\ readouts_per_position = 2 /\ Len(measured) >= 1

\* C3 as stated: a complete run without refused moves that measured M
\* positions made floor(M / (R+1)) periodic reference measurements, one
\* initial and one final one.
C3_Original ==
  (pc = "done" /\ rejected = {}) =>
     /\ refs.periodic = Len(measured) \div (reference_period + 1)
     /\ refs.initial = 1
     /\ refs.final = 1

\* C3 amended: a complete run without refused moves that measured M
\* positions made floor((M-1) / (R+1)) periodic reference measurements
\* (none for M = 0), one initial and one final one.
C3_ReferenceCount ==
  (pc = "done" /\ rejected = {}) =>
     /\ refs.periodic = IF Len(measured) = 0 THEN 0
                        ELSE (Len(measured) - 1) \div (reference_period + 1)
     /\ refs.initial = 1
     /\ refs.final = 1

C3_Witness ==
  /\ pc = "done" /\ rejected = {}
  /\ reference_period = 0 /\ Len(measured) = 3 /\ refs.periodic = 2

\* C4: the initial reference measurement is started in every run that gets
\* past pre_run_setup, whatever the queue holds, and it has returned before
\* the first coordinate is popped, before the stage is commanded to a scan
\* coordinate and before the first scan-position read.
C4_InitialReferenceFirst ==
  /\ refs.initial <= 1
  /\ (pc # "start" /\ ~(pc = "ref_enter" /\ refCtx = "initial")
        /\ crashCause # "setup_read") => refs.initial = 1
  /\ (popped # <<>> \/ moved # <<>> \/ totalReads > 0 \/ pc = "advance")
       => refsDone.initial = 1

C4_Witness ==
  refsDone.initial = 1 /\ moved # <<>> /\ totalReads > 0

\* C5: a run that completes took exactly one final reference measurement;
\* when it started the queue was empty, and from then on no coordinate is
\* popped, no scan move is commanded and no scan-position read is made.
C5_FinalReferenceLast ==
  /\ [](pc = "done" =>
          /\ refs.final = 1 /\ refsDone.final = 1
          /\ valid_grid_positions = <<>>)
  /\ [](refs.final >= 1 =>
          /\ refs.final = 1
          /\ valid_grid_positions = <<>>
          /\ ~jobActive /\ ~logOpen
          /\ pc \in RefPcs \cup {"ref_return", "done"})
  /\ [][refs.final >= 1 =>
          /\ popped' = popped /\ moved' = moved
          /\ totalReads' = totalReads /\ measured' = measured]_vars

C5_Witness ==
  pc = "done" /\ Len(measured) >= 2 /\ refsDone.final = 1

\* C6: over a run that no hardware fault ends, the coordinates popped are
\* exactly the validated queue in its order, each handed to the move
\* operation once, and the queue is empty at the end.
C6_FifoConsumption ==
  (pc \in {"done", "crashed"} /\ ~HardwareFault) =>
     /\ popped = initQueue
     /\ moved = Accepted(initQueue)
     /\ valid_grid_positions = <<>>

\* C7: when move_to_next_grid_position returns, the stage was commanded to
\* the first accepted coordinate of the queue (one move, every refused
\* coordinate before it popped without a move), or every coordinate was
\* refused, the queue is empty and no move was made.
C7_SkipRejected ==
  pc = "adv_return" =>
     LET q0  == advEntry
         acc == {i \in 1..Len(q0) : check_position(q0[i])}
     IN  IF acc # {}
         THEN LET i == CHOOSE j \in acc : \A k \in acc : j <= k IN
              /\ advMoves = 1
              /\ moved # <<>> /\ moved[Len(moved)] = q0[i]
              /\ last_set_coordinates = AbsPos(q0[i])
              /\ valid_grid_positions = SubSeq(q0, i + 1, Len(q0))
              /\ depth = i - 1
         ELSE /\ advMoves = 0
              /\ valid_grid_positions = <<>>
              /\ depth = Len(q0)

C7_Witness ==
  pc = "adv_return" /\ depth >= 2 /\ advMoves = 1

\* C8: an exception raised by a sub-step of a reference measurement never
\* leaves measure_reference_device: the routine returns and the caller goes
\* on with its next step (the next advance, or the end of the run).
C8_ReferenceFailureNotFatal ==
  /\ [](crashCause # "reference")
  /\ [][(pc \in RefPcs /\ raised # "none" /\ pc' # pc)
          => (pc' = "ref_return" /\ refFailed')]_vars
  /\ [][(pc = "ref_return" /\ pc' # pc) => pc' \in {"advance", "done"}]_vars

C8_Witness ==
  ~refTargetOK /\ pc = "done" /\ Len(measured) >= 1 /\ refFailed

\* C9 as stated: when a reference measurement has failed, the caller goes
\* on to the next position move with the queue and
\* counts_since_last_reference as they were before the measurement.
C9_Original ==
  [][(pc = "ref_return" /\ refFailed /\ refCtx # "final" /\ pc' # pc) =>
       /\ pc' = "advance"
       /\ valid_grid_positions' = refEntry.queue
       /\ counts_since_last_reference' = refEntry.count]_vars

\* C9 amended: measure_reference_device itself changes neither the queue nor
\* counts_since_last_reference, so both are as at its entry when a failed
\* measurement returns and when the run ends after a failed final one; the
\* caller then calls move_to_next_grid_position on that same queue, with the
\* counter unchanged after a failed initial measurement and reset to zero
\* after a failed periodic one.
C9_FailedReferenceFrame ==
  /\ []((pc \in {"ref_return", "done"} /\ refFailed) =>
          /\ valid_grid_positions = refEntry.queue
          /\ counts_since_last_reference = refEntry.count)
  /\ [][(pc = "ref_return" /\ refFailed /\ refCtx # "final" /\ pc' # pc) =>
          /\ pc' = "advance"
          /\ valid_grid_positions' = refEntry.queue
          /\ advEntry' = refEntry.queue
          /\ counts_since_last_reference' =
               IF refCtx = "periodic" THEN 0 ELSE refEntry.count]_vars

C9_Witness ==
  /\ pc = "advance" /\ ret = "job" /\ depth = 0 /\ advMoves = 0
  /\ refCtx = "periodic" /\ refFailed
  /\ refEntry.count >= 1 /\ counts_since_last_reference = 0
  /\ valid_grid_positions = refEntry.queue /\ valid_grid_positions # <<>>

\* C10: when the reference target is outside the motor limits the run stops
\* with an error: no coordinate is popped or visited and the run does not
\* complete.
C10_BoundaryErrorFatal ==
  ~refTargetOK => (popped = <<>> /\ moved = <<>> /\ pc # "done")

\* ------------------------------------------------ an Analyser on its own
\* a fresh analyser of either class, the orchestrator at rest
AnaInit ==
  /\ \E mode \in {"pulse", "current"} : analyser = NewAnalyser(mode)
  /\ anaOp = [op |-> "none", raised |-> FALSE, out |-> "ok", block |-> 0]
  /\ anaCalls = NoAnaCalls
  /\ GridIdle
  /\ MotIdle
  /\ OrchFresh
  /\ valid_grid_positions = <<>> /\ initQueue = <<>> /\ rejected = {}
  /\ queue_is_ndarray = FALSE
  /\ refTargetOK = TRUE
  /\ readouts_per_position = 0
  /\ reference_period = 0

AnaCall(op, exc, out, block) ==
  /\ anaCalls.append_data + anaCalls.process_next < MaxAnaCalls
  /\ anaCalls' = [anaCalls EXCEPT ![op] = @ + 1]
  /\ anaOp' = [op |-> op, raised |-> exc, out |-> out, block |-> block]

\* analyser.append_data(block)
AppendData ==
  \E block \in 1..MaxBlocks :
    /\ AnaCall("append_data", FALSE, "ok", block)
    /\ analyser' = append_data(analyser, block)
    /\ UNCHANGED <<gridVars, orchVars, motVars>>

\* await analyser.process_next()
ProcessNext ==
  \E out \in {"ok", "IndexError", "Error"} :
    /\ AnaCall("process_next", analyser.queue # <<>> /\ out = "Error",
               IF analyser.queue = <<>> THEN "ok" ELSE out, 0)
    /\ analyser' = process_next(analyser, out)
    /\ UNCHANGED <<gridVars, orchVars, motVars>>

AnaNext ==
  \/ AppendData
  \/ ProcessNext

AnaSpec == AnaInit /\ [][AnaNext]_vars

\* ------------------------------------------------------ claims on the Grid
Made == grids.caller.made

PositionSet(g) == {g.grid_positions[i] : i \in 1..Len(g.grid_positions)}

\* C11: for a positive radius and a positive step make_grid produces exactly
\* the points of the step lattice inside the closed disk, the origin among
\* them: none outside, none missing
C11_ExactDiskLattice ==
  (Made /\ r_max > 0 /\ r_step > 0) =>
     LET k == CeilDiv(r_max, r_step)
         lattice == {<<i * r_step, j * r_step>> :
                       i \in (0 - k)..k, j \in (0 - k)..k}
     IN  /\ PositionSet(grids.caller) =
               {p \in lattice : p[1] * p[1] + p[2] * p[2] <= r_max * r_max}
         /\ <<0, 0>> \in PositionSet(grids.caller)

\* a radius that is no multiple of the step: the outermost axis value lies
\* outside the disk and is cut
C11_Witness ==
  /\ Made /\ r_max = 3 /\ r_step = 2
  /\ <<2, 2>> \in PositionSet(grids.caller)
  /\ <<4, 0>> \notin PositionSet(grids.caller)
  /\ grids.caller.xy_sq = <<0 - 4, 0 - 2, 0, 2, 4>>

\* C12: the grid is in strictly increasing lexicographic (x, y) order, so
\* without duplicates; the axis values are strictly increasing and symmetric
\* around zero; radius 2 with step 2 gives the five points of the example
C12_LexicographicOrder ==
  Made =>
    LET g == grids.caller
        LexLess(p, q) == p[1] < q[1] \/ (p[1] = q[1] /\ p[2] < q[2])
    IN
    /\ \A i, j \in 1..Len(g.grid_positions) :
          i < j => LexLess(g.grid_positions[i], g.grid_positions[j])
    /\ \A i, j \in 1..Len(g.xy_sq) : i < j => g.xy_sq[i] < g.xy_sq[j]
    /\ \A i \in 1..Len(g.xy_sq) :
          g.xy_sq[Len(g.xy_sq) + 1 - i] = 0 - g.xy_sq[i]
    /\ (r_max = 2 /\ r_step = 2) =>
          g.grid_positions =
            << <<0 - 2, 0>>, <<0, 0 - 2>>, <<0, 0>>, <<0, 2>>, <<2, 0>> >>

C12_Witness ==
  /\ Made /\ r_max = 2 /\ r_step = 2
  /\ Len(grids.caller.grid_positions) = 5
  /\ grids.caller.xy_sq = <<0 - 2, 0, 2>>

\* C13 as stated: make_grid fails whenever the radius or the step is not
\* positive and leaves no grid behind
C13_Original ==
  (gridCalls.make_grid > 0 /\ (r_max <= 0 \/ r_step <= 0)) =>
     (~Made /\ (gridOp.op = "make_grid" => gridOp.raised))

\* C14: a second make_grid on the same object yields the sequence of the
\* first one, of the same length: nothing is appended
C14_SecondCallSameGrid ==
  Made => grids.caller.grid_positions = firstGrid

C14_Witness ==
  /\ gridCalls.make_grid >= 2 /\ Made
  /\ Len(firstGrid) > 1
  /\ grids.caller.grid_positions = firstGrid


\* C15: validate_grid yields exactly the grid coordinates the reachability
\* predicate accepts, in their grid order: non-empty as soon as one is
\* reachable, the whole grid when all are
C15_ValidatedIsFilteredGrid ==
  [][(gridCalls'.validate_grid # gridCalls.validate_grid /\ ~gridOp'.raised) =>
       LET Reachable(p) == dummy_check_PMT_curvature(p, motor_limits)
           before == grids.caller.grid_positions
           after == grids'.caller.valid_grid_positions
       IN  /\ after = SelectSeq(before, Reachable)
           /\ (\E i \in 1..Len(before) : Reachable(before[i])) => after # <<>>
           /\ (\A i \in 1..Len(before) : Reachable(before[i])) => after = before
    ]_vars

\* some coordinates are kept and some are filtered out
C15_Witness ==
  /\ grids.caller.validated
  /\ grids.caller.valid_grid_positions # <<>>
  /\ Len(grids.caller.valid_grid_positions) < Len(grids.caller.grid_positions)
  /\ \E i \in 1..Len(grids.caller.valid_mask) :
        /\ i < Len(grids.caller.valid_mask)
        /\ ~grids.caller.valid_mask[i] /\ grids.caller.valid_mask[i + 1]

\* C16: validate_grid leaves grid_positions as it was, in content and order
\* (only make_grid assigns it), and a validation with a predicate that agrees
\* with the one before yields the same validated sequence
C16_ValidateFrame ==
  [][/\ grids'.caller.grid_positions # grids.caller.grid_positions
          => gridCalls'.make_grid # gridCalls.make_grid
     /\ ( /\ gridCalls'.validate_grid # gridCalls.validate_grid
          /\ grids.caller.validated
          /\ ValidMask(grids.caller.grid_positions, motor_limits)
               = grids.caller.valid_mask )
          => grids'.caller.valid_grid_positions
               = grids.caller.valid_grid_positions
    ]_vars

C16_Witness ==
  /\ gridCalls.validate_grid >= 2 /\ gridOp.op = "validate_grid"
  /\ grids.caller.valid_grid_positions # <<>>
  /\ Len(grids.caller.valid_grid_positions) < Len(grids.caller.grid_positions)
  /\ grids.caller.grid_positions = firstGrid

\* C17: the Scan_Manager holds a copy of the validated queue taken at
\* construction, with the counter at zero: its pops never change the
\* caller's Grid, and make_grid or validate_grid on the caller's Grid never
\* change its queue
C17_PrivateQueue ==
  [][/\ (sm_grid = "none" /\ sm_grid' # "none") =>
          /\ grids'[sm_grid'].valid_grid_positions
               = grids.caller.valid_grid_positions
          /\ grids'.caller = grids.caller
          /\ sm_counts' = 0
     /\ gridCalls'.pop # gridCalls.pop => grids'.caller = grids.caller
     /\ ( /\ sm_grid # "none"
          /\ \/ gridCalls'.make_grid # gridCalls.make_grid
             \/ gridCalls'.validate_grid # gridCalls.validate_grid )
          => grids'[sm_grid] = grids[sm_grid]
    ]_vars

\* a coordinate was popped from the queue of the Scan_Manager and the
\* caller still has it
C17_Witness ==
  /\ sm_grid # "none" /\ gridCalls.pop >= 1 /\ ~gridOp.raised
  /\ gridOp.op = "pop"
  /\ grids.caller.valid_grid_positions # <<>>
  /\ grids[sm_grid].valid_grid_positions
       = Tail(grids.caller.valid_grid_positions)


\* ------------------------------------------------- claims on the log file
\* C18: every line of the log holds the 3 commanded values of an accepted
\* move, then the 3 values the motors report, then readouts_per_position
\* timestamps, those of the reads of its own position in the order they were
\* taken, and one newline ends it (one line per finished position)
C18_LogLineShape ==
  /\ Len(logLines) = Len(measured)
  /\ \A i \in 1..Len(logLines) :
       LET l == logLines[i]
           N == readouts_per_position
       IN  /\ Len(l) = 6 + N
           /\ \E k \in 1..Len(moved) : SubSeq(l, 1, 3) = AbsPos(moved[k])
           /\ SubSeq(l, 4, 6) = RealPosition
           /\ SubSeq(l, 7, 6 + N) = [k \in 1..N |-> (i - 1) * N + k]

C18_Witness ==
  /\ Len(logLines) >= 2 /\ readouts_per_position = 2
  /\ SubSeq(logLines[1], 7, 8) = <<1, 2>>
  /\ SubSeq(logLines[2], 7, 8) = <<3, 4>>
  /\ SubSeq(logLines[2], 1, 3) # SubSeq(logLines[1], 1, 3)

\* C19 as stated: when the move to the next queued coordinate is commanded
\* the record of the position is complete and the file closed
C19_Original ==
  pc = "adv_move" => (~logOpen /\ line = <<>>)

\* C19: the record of a position is complete and the file closed before the
\* record and the reads of the next position begin and before the advance of
\* the main loop; the move the last job commands comes earlier, with the
\* file open and the record still without its timestamps and newline
C19_FlushedBeforeNextRecord ==
  /\ ( \/ pc = "loop_test"
       \/ (pc \in {"advance", "adv_move", "adv_return"} /\ ret = "loop") )
       => (~logOpen /\ line = <<>> /\ Len(logLines) = Len(measured))
  /\ (pc \in {"advance", "adv_move", "adv_return"} /\ ret = "job")
       => (logOpen /\ Len(line) = 6 /\ Len(logLines) = Len(measured))

\* a second position is about to begin, the record of the first is flushed
C19_Witness ==
  /\ pc = "loop_test" /\ Len(logLines) >= 1 /\ Len(valid_grid_positions) > 0
  /\ ~logOpen /\ Len(moved) >= 2

\* C20 as stated: no terminated run has the log file still open
C20_LogClosedOnExit ==
  pc \in {"done", "crashed", "interrupted"} => ~logOpen


\* ------------------------------------------------ claims on the interrupt
\* C21 as stated: after an operator interrupt the cancellation has reached
\* the coroutine (an exception left run) and the operation it was suspended
\* in is no longer awaited
C21_CancellationDelivered ==
  pc = "interrupted" => (crashCause # "none" /\ awaiting = {})


C25_ReadsInOrder ==
  /\ [](/\ "read" \in awaiting =>
             /\ pc = "job_read" /\ awaiting = {"read"}
             /\ nReads = jobIdx /\ jobIdx < readouts_per_position
        /\ "read" \notin orphans)
  /\ [][/\ jobIdx' = jobIdx + 1 => (jobDone /\ drainDone /\ awaiting = {})
        /\ (jobActive' /\ ~jobActive) =>
              (jobIdx = 0 \/ (jobDone /\ drainDone))
       ]_vars

\* the second read of a position is in flight, the first one was drained
\* after it had returned
C25_Witness ==
  /\ pc = "job_read" /\ jobIdx = 1 /\ nReads = 1 /\ awaiting = {"read"}
  /\ Len(drainLog) = 1 /\ ~drainLog[1].early


\* ------------------------------------- claims on measure_reference_device
\* C26 as stated: when measure_reference_device returns, with or without a
\* caught exception, no operation it started is still in flight
C26_JoinedOnReturn ==
  pc = "ref_return" => (awaiting = {} /\ orphans = {})


\* C27: the final job of a position, started after its N reads, makes a
\* periodic reference measurement if and only if counts_since_last_reference
\* is strictly greater than reference_period, and otherwise goes on to the
\* move; a periodic reference measurement starts nowhere else; when it
\* returns, failed or not, the counter is zero and
\* move_to_next_grid_position is called on the queue as it is
C27_PeriodicCheck ==
  [][/\ (pc = "job_start" /\ jobIdx = readouts_per_position /\ pc' # pc) =>
          /\ nReads = readouts_per_position
          /\ pc' = "ref_enter"
               <=> counts_since_last_reference > reference_period
          /\ pc' # "ref_enter" => (pc' = "advance" /\ ret' = "job")
     /\ (pc' = "ref_enter" /\ pc # "ref_enter" /\ refCtx' = "periodic") =>
          (pc = "job_start" /\ jobIdx = readouts_per_position)
     /\ (pc = "ref_return" /\ refCtx = "periodic" /\ pc' # pc) =>
          /\ counts_since_last_reference' = 0
          /\ pc' = "advance" /\ ret' = "job"
          /\ valid_grid_positions' = valid_grid_positions
    ]_vars

\* after a failed periodic reference measurement the move to the next
\* coordinate is under way and the counter is zero
C27_Witness ==
  /\ pc = "adv_move" /\ ret = "job" /\ "move_scan" \in awaiting
  /\ refCtx = "periodic" /\ refFailed /\ refsDone.periodic = 1
  /\ counts_since_last_reference = 0 /\ refEntry.count = reference_period + 1


\* C28 as stated: every periodic reference measurement comes when exactly
\* reference_period + 1 positions were measured since the reference
\* measurement before it
C28_Original ==
  (refCtx = "periodic" /\ pc \in RefPcs \cup {"ref_return"}) =>
     refEntry.since = reference_period + 1

\* C28: a periodic reference measurement is made inside a position, after
\* its reads and before its record is complete, with the counter at
\* reference_period + 1. The first one comes when the reads of
\* reference_period + 2 positions were taken since the initial reference
\* measurement, every later one when the reads of reference_period + 1
\* positions were taken since the periodic one before it
C28_Cadence ==
  (refCtx = "periodic" /\ pc \in RefPcs \cup {"ref_return"}) =>
     /\ refEntry.count = reference_period + 1
     /\ refEntry.started = Len(measured) + 1
     /\ nReads = readouts_per_position
     /\ refEntry.since = IF refs.periodic = 1 THEN reference_period + 2
                         ELSE reference_period + 1

C28_Witness ==
  /\ refCtx = "periodic" /\ pc = "ref_return" /\ refs.periodic = 2
  /\ refEntry.since = reference_period + 1
  /\ refEntry.started = reference_period + 2 + refEntry.since


\* C29: in a reference measurement with no failing sub-step the move to the
\* reference target and the reconfiguration to secondary mode are started
\* together, the reference read is issued when both have returned, the
\* analysis and the reconfiguration to primary mode start when that read
\* has returned, and nothing is awaited any more when the routine returns;
\* exactly one reference read is made
C29_ReferenceSequence ==
  /\ [](/\ (awaiting \cap {"move_ref", "cfg_secondary"} # {}) =>
              pc = "ref_gather1"
        /\ "ref_read" \in awaiting =>
              (pc = "ref_read" /\ awaiting = {"ref_read"})
        /\ "cfg_primary" \in awaiting => pc = "ref_gather2"
        /\ (pc \in RefPcs \cup {"ref_return"}) =>
              refReads <= refEntry.reads + 1
        /\ (pc = "ref_return" /\ ~refFailed) =>
              /\ awaiting = {} /\ deviceMode = "primary"
              /\ refReads = refEntry.reads + 1)
  /\ [][/\ (pc = "ref_enter" /\ pc' # pc /\ refTargetOK) =>
             awaiting' = {"move_ref", "cfg_secondary"}
        /\ (pc' = "ref_read" /\ pc # "ref_read") =>
             (pc = "ref_gather1" /\ awaiting = {} /\ raised = "none")
        /\ (pc' = "ref_gather2" /\ pc # "ref_gather2") =>
             (pc = "ref_read" /\ awaiting = {} /\ raised = "none"
              /\ awaiting' = {"cfg_primary"})
        /\ (pc' = "ref_return" /\ pc # "ref_return" /\ ~refFailed') =>
             (pc = "ref_gather2" /\ awaiting = {})
       ]_vars

\* a second periodic-free run of the routine ended well: one read each
C29_Witness ==
  /\ pc = "ref_return" /\ ~refFailed /\ refCtx = "final"
  /\ refReads = 2 /\ refEntry.reads = 1
  /\ awaiting = {} /\ orphans = {} /\ stageAt = RefTarget


\* ------------------------------------ claims on move_to_next_grid_position
\* C30 as stated: while rejected coordinates are skipped one invocation of
\* move_to_next_grid_position is active, however many are rejected in a
\* row, and an advance pops at most what the queue held at its entry
C30_IterativeSkip ==
  /\ depth + 1 <= 1
  /\ pc \in {"advance", "adv_move", "adv_return"} =>
       Len(advEntry) - Len(valid_grid_positions) <= Len(advEntry)

\* ------------------------------ claims on check_PMT_curvature_and_move
\* C31: check_PMT_curvature_and_move(c) on a coordinate the boundary check
\* refuses returns False (the caller goes on to the next coordinate),
\* commands no stage move and leaves last_set_coordinates as it was; on an
\* accepted coordinate it sets last_set_coordinates to the absolute position
\* and commands that move, and it returns True only out of such a move
C31_MoveReturn ==
  [][/\ (pc = "advance" /\ popped' # popped) =>
          LET c == popped'[Len(popped')] IN
          IF c \in rejected
          THEN /\ pc' = "advance"
               /\ "move_scan" \notin awaiting'
               /\ moved' = moved
               /\ last_set_coordinates' = last_set_coordinates
          ELSE /\ pc' = "adv_move"
               /\ "move_scan" \in awaiting'
               /\ moved' = Append(moved, c)
               /\ last_set_coordinates' = AbsPos(c)
     /\ (pc = "adv_move" /\ pc' = "adv_return") =>
          /\ "move_scan" \in awaiting
          /\ moved # <<>>
          /\ moved[Len(moved)] \notin rejected
          /\ last_set_coordinates = AbsPos(moved[Len(moved)])
          /\ stageAt' = moved[Len(moved)]
    ]_vars

\* a refused coordinate was skipped and the one after it was moved to
C31_Witness ==
  /\ pc = "adv_return"
  /\ Len(popped) >= 2
  /\ popped[Len(popped) - 1] \in rejected
  /\ moved # <<>> /\ moved[Len(moved)] = popped[Len(popped)]
  /\ stageAt = popped[Len(popped)]

\* ------------------------------------------ claims on the Device's mode
\* C32 as stated: whenever device.read() is issued for a scan position the
\* configuration last requested of the Device is the primary one and no
\* configure_for_primary / configure_for_secondary is in flight, also after a
\* reference measurement one of whose sub-steps failed
C32_ReadsInPrimaryMode ==
  [][("read" \notin awaiting /\ "read" \in awaiting') =>
        /\ deviceMode' = "primary"
        /\ (awaiting' \cup orphans') \cap {"cfg_secondary", "cfg_primary"} = {}
    ]_vars

\* ---------------------------------------------- claims on the stage
\* C33 as stated: no device.read() or device.read_reference() is in flight
\* while a stage move is in flight, and at most one stage move is in flight,
\* also after a reference measurement one of whose sub-steps failed
C33_StageStationary ==
  LET inFlight == awaiting \cup orphans
      moves == inFlight \cap {"move_ref", "move_scan"}
      reads == inFlight \cap {"read", "ref_read"}
  IN  /\ ~(moves # {} /\ reads # {})
      /\ Cardinality(moves) <= 1

\* ------------------------------------- claims on the pending blocks
\* C34 as stated: the Analyser never holds more than one pending block, and
\* none when the jobs of a position have all finished
C34_Original ==
  /\ Len(data_to_analyse) <= 1
  /\ pc = "pos_finish" => data_to_analyse = <<>>

\* C34: the Analyser never holds more than two pending blocks, never more
\* than one as long as every process_next of the position ran before the
\* read of its job returned, and none when the jobs of a position have all
\* finished
C34_PendingBounded ==
  /\ Len(data_to_analyse) <= 2
  /\ ( /\ \A i \in 1..Len(drainLog) :
            drainLog[i].job < readouts_per_position => drainLog[i].early
       /\ ~(jobActive /\ jobDone /\ ~drainDone
            /\ jobIdx < readouts_per_position) )
       => Len(data_to_analyse) <= 1
  /\ pc = "pos_finish" => data_to_analyse = <<>>

\* a position of two reads has finished its jobs: the first process_next ran
\* before its read returned, the second after, and no block is pending
C34_Witness ==
  /\ pc = "pos_finish" /\ readouts_per_position = 2 /\ nReads = 2
  /\ Len(drainLog) = 3
  /\ drainLog[1].early /\ ~drainLog[2].early
  /\ data_to_analyse = <<>>
  /\ Len(processed) = totalReads

LiveSpec == Init /\ [][Next]_vars /\ WF_vars(Next)

\* C36 as stated: whatever the validated queue, a run none of whose Device,
\* Motor Controller and Analyser operations fails outside a reference
\* measurement reaches the end of run(), after the final reference
\* measurement, and every position measured takes at least one coordinate
\* off the queue
C36_RunTerminates ==
  /\ <>(\/ pc = "done" /\ refsDone.final = 1
        \/ HardwareFault)
  /\ [](pc = "pos_finish" =>
          /\ ret = "job" /\ advEntry # <<>>
          /\ Len(valid_grid_positions) < Len(advEntry))

\* ------------------------------------------------ claims on the log record
\* C37 as stated: the coordinate log_position_info writes is the target of
\* the last accepted scan move; from then until the last read of the
\* position has returned no move is commanded; and every read whose
\* timestamp is in the record was taken with the stage at that coordinate
C37_ReadsAtLoggedCoordinate ==
  /\ [][(~logOpen /\ logOpen') =>
          /\ moved # <<>>
          /\ SubSeq(line', 1, 3) = AbsPos(moved[Len(moved)])]_vars
  /\ [][(logOpen /\ nReads < readouts_per_position) =>
          /\ moved' = moved
          /\ (awaiting' \cup orphans') \cap {"move_ref", "move_scan"}
                \subseteq (awaiting \cup orphans)]_vars
  /\ [](\A k \in 1..Len(measured) :
          /\ Len(measured[k].at) = measured[k].reads
          /\ \A i \in 1..Len(measured[k].at) :
                measured[k].at[i] = measured[k].coord)

\* C38 as stated: log_position_info only reads from the Motor Controller:
\* last_set_coordinates is the same list of three components before and
\* after the record is written
C38_LoggingReadsOnly ==
  [][(pc = "loop_test" /\ logOpen') =>
        /\ last_set_coordinates' = last_set_coordinates
        /\ Len(last_set_coordinates') = 3]_vars

\* ------------------------------- validating and moving, the Motor Controller
\* a calibrated Motor Controller and a Grid made by make_grid, before
\* validate_grid; no Scan_Manager runs
MotInit ==
  /\ mc_cal \in Calibrations
  /\ \E r \in 1..(MaxRadius - 1) : mc_grid = make_grid(NewGrid, r, 1)
  /\ mc_validated_with = mc_cal
  /\ mc_op = [op |-> "none", raised |-> FALSE, coord |-> <<0, 0>>,
              accepted |-> FALSE]
  /\ mc_calls = 0
  /\ GridIdle
  /\ AnaIdle
  /\ OrchFresh
  /\ valid_grid_positions = <<>> /\ initQueue = <<>> /\ rejected = {}
  /\ queue_is_ndarray \in BOOLEAN
  /\ refTargetOK = TRUE
  /\ readouts_per_position = 0
  /\ reference_period = 0

MotCall(op, exc, p, acc) ==
  /\ mc_calls < MaxMotorCalls
  /\ mc_calls' = mc_calls + 1
  /\ mc_op' = [op |-> op, raised |-> exc, coord |-> p, accepted |-> acc]

\* grid.validate_grid(motors): dummy_check_PMT_curvature on every coordinate
MotValidate ==
  /\ MotCall("validate_grid", FALSE, <<0, 0>>, FALSE)
  /\ mc_grid' = validate_grid(mc_grid, mc_cal)
  /\ mc_validated_with' = mc_cal
  /\ UNCHANGED <<mc_cal, gridVars, orchVars, unitVars>>

\* the curvature mapping, PMT_centre or the motor limits are set anew
MotRecalibrate ==
  /\ \E l \in Calibrations :
       /\ l # mc_cal
       /\ mc_cal' = l
  /\ MotCall("calibrate", FALSE, <<0, 0>>, FALSE)
  /\ UNCHANGED <<mc_grid, mc_validated_with, gridVars, orchVars, unitVars>>

\* move_to_next_grid_position, one frame: pop(0) of the validated queue (an
\* ndarray has no pop) and motors.check_PMT_curvature_and_move(x, y)
MotMove ==
  /\ mc_grid.validated
  /\ mc_grid.valid_grid_positions # <<>>
  /\ LET p == Head(mc_grid.valid_grid_positions) IN
     IF queue_is_ndarray
     THEN /\ MotCall("move", TRUE, <<0, 0>>, FALSE)
          /\ UNCHANGED mc_grid
     ELSE /\ MotCall("move", FALSE, p, check_PMT_curvature_and_move(p, mc_cal))
          /\ mc_grid' = [mc_grid EXCEPT !.valid_grid_positions = Tail(@)]
  /\ UNCHANGED <<mc_cal, mc_validated_with, gridVars, orchVars, unitVars>>

MotNext ==
  \/ MotValidate
  \/ MotRecalibrate
  \/ MotMove

MotorSpec == MotInit /\ [][MotNext]_vars

\* C39: for every coordinate of the grid and every calibration the answer
\* of dummy_check_PMT_curvature, used by validate_grid, is the decision of
\* check_PMT_curvature_and_move; the mask of validate_grid holds these
\* answers; and a coordinate popped from the validated queue while the
\* calibration is the one validate_grid worked with is moved to, not skipped
C39_ValidationAgreesWithMove ==
  /\ [](\A i \in 1..Len(mc_grid.grid_positions) :
          LET p == mc_grid.grid_positions[i] IN
          /\ \A cal \in {mc_cal, mc_validated_with} :
                dummy_check_PMT_curvature(p, cal)
                   <=> check_PMT_curvature_and_move(p, cal)
          /\ mc_grid.validated =>
                (mc_grid.valid_mask[i]
                   <=> check_PMT_curvature_and_move(p, mc_validated_with)))
  /\ [][(mc_calls' # mc_calls /\ mc_op'.op = "move" /\ ~mc_op'.raised
          /\ mc_cal = mc_validated_with) => mc_op'.accepted]_vars

\* with an off-centre PMT and a curvature mapping, validation filtered some
\* coordinates out and the first one of the queue was moved to
C39_Witness ==
  /\ mc_op.op = "move" /\ ~mc_op.raised /\ mc_op.accepted
  /\ mc_cal = mc_validated_with
  /\ mc_cal.centre = <<0, 1, -1>> /\ mc_cal.scale = 1
  /\ \E i \in 1..Len(mc_grid.valid_mask) : ~mc_grid.valid_mask[i]
  /\ \E i \in 1..Len(mc_grid.valid_mask) :
        /\ mc_grid.valid_mask[i]
        /\ mc_grid.grid_positions[i] = mc_op.coord

====
